---- MODULE Spec2Model ----
(***************************************************************************)
(* Model of Echelon-Video-Length-Size-Analyzer.py: the directory walk, the *)
(* thread-pool dispatch of video_info over the discovered files, the       *)
(* filter, the five-bucket report loop, the word report and the verbose    *)
(* line of analyze_videos.                                                 *)
(*                                                                         *)
(* Numbers.  A duration is kept in milliseconds (the integer mediainfo     *)
(* prints) and a size in bytes; the code divides them by 1000 and 1e9,     *)
(* which maps 0 to 0 and keeps the order, so comparisons with 0 and with   *)
(* each other are the same on both scales.  np.linspace(lo, hi, 6) is      *)
(* lo + j*(hi-lo)/5; the model keeps every bound multiplied by 5, so that  *)
(* "bounds[i] <= dur < bounds[i+1]" is an exact integer comparison.        *)
(* A mean is the pair (sum, count); the mean of an empty list is NaN.      *)
(***************************************************************************)
EXTENDS Integers, Sequences, FiniteSets, TLC

VARIABLES
    directory,        \* the tree under args.directory: dirs in os.walk order
    max_threads,      \* args.threads
    top_n_words,      \* args.topn
    verbose,          \* args.verbose
    pc,               \* position of the main thread in analyze_videos
    walk_pos,         \* next directory os.walk yields
    video_files,      \* line 61
    dir_count,        \* line 62
    futures,          \* one future per submitted call: state and outcome
    probe_calls,      \* paths on which video_info was entered, in order
    overtaken,        \* some call ended while a call submitted before it ran
    collect_pos,      \* next future whose result list(...) waits for
    video_info_list,  \* lines 72 and 75
    no_stream_count,  \* lines 63 and 76
    durations,        \* line 78
    sizes,            \* line 79
    titles,           \* line 80
    bounds,           \* line 86, times 5
    i,                \* loop variable of line 90 (1-based)
    stdout,           \* the lines printed so far
    word_steps,       \* the word-report calls made so far (lines 106-125)
    exception         \* the exception that ended the run, "none" if none

vars == << directory, max_threads, top_n_words, verbose, pc, walk_pos,
           video_files, dir_count, futures, probe_calls, overtaken,
           collect_pos,
           video_info_list, no_stream_count, durations, sizes, titles,
           bounds, i, stdout, word_steps, exception >>

----------------------------------------------------------------------------
(* Bounds of the model *)

MaxDirs == 2
MaxWorkers == 2
MaxDurMs == 1

(* Program constants *)

NumCategories == 5

VALID_EXTENSIONS == {".mp4", ".avi", ".mkv", ".mov", ".wmv"}

----------------------------------------------------------------------------
(* Inputs: directory trees *)

OtherFile == [ext |-> ".txt", media |-> "ok", ms |-> 0, stat |-> "ok", bytes |-> 0]

VideoFile(media, ms, stat, bytes) ==
    [ext |-> ".mp4", media |-> media, ms |-> ms, stat |-> stat, bytes |-> bytes]

\* what mediainfo does on a file: prints a duration, exits non-zero, or
\* prints something int() rejects (or cannot be run at all)
MediaCases ==
    { <<"ok", ms>> : ms \in 0..MaxDurMs }
        \cup { <<"CalledProcessError", 0>>, <<"ValueError", 0>> }

\* what os.path.getsize does on a file: an empty file, a file of one byte,
\* or a path it cannot stat
StatCases == { <<"ok", 0>>, <<"ok", 1>>, <<"OSError", 0>> }

SmallFiles ==
    { VideoFile(m[1], m[2], s[1], s[2]) : m \in MediaCases, s \in StatCases }
        \cup { OtherFile }

\* a directory listing no file or one file
SmallListings == { <<>> } \cup { <<f>> : f \in SmallFiles }

SmallTrees == UNION { [1..n -> SmallListings] : n \in 0..MaxDirs }

\* one directory whose videos have the durations 0, 1, .., NumCategories
SpreadListing == [k \in 1..(NumCategories + 1) |-> VideoFile("ok", k - 1, "ok", k)]

\* the same with a stream-less file, a file mediainfo fails on and a
\* non-video in between
MixedListing ==
    << VideoFile("ok", 0, "ok", 0), VideoFile("CalledProcessError", 0, "ok", 2),
       OtherFile >> \o SpreadListing

Trees == SmallTrees \cup { <<SpreadListing>>, << <<>>, MixedListing >> }

ThreadCounts == (0 - 1)..MaxWorkers

TopNs == 0..1

----------------------------------------------------------------------------
(* Helpers *)

RECURSIVE SumSeq(_)
SumSeq(s) == IF s = <<>> THEN 0 ELSE Head(s) + SumSeq(Tail(s))

RECURSIVE MinSeq(_)
MinSeq(s) ==
    IF Len(s) = 1 THEN s[1]
    ELSE LET m == MinSeq(Tail(s)) IN IF s[1] <= m THEN s[1] ELSE m

RECURSIVE MaxSeq(_)
MaxSeq(s) ==
    IF Len(s) = 1 THEN s[1]
    ELSE LET m == MaxSeq(Tail(s)) IN IF s[1] >= m THEN s[1] ELSE m

\* np.mean: NaN (with a warning) on an empty list
NpMean(s) ==
    IF s = <<>> THEN [nan |-> TRUE, sum |-> 0, n |-> 0]
    ELSE [nan |-> FALSE, sum |-> SumSeq(s), n |-> Len(s)]

\* the file a path names
FileAt(path) == directory[path.dir][path.base]

\* os.path.join(root, file)
JoinPath(d, k) == [dir |-> d, base |-> k, ext |-> directory[d][k].ext]

\* file.endswith(tuple(VALID_EXTENSIONS))
HasValidExtension(d, k) == directory[d][k].ext \in VALID_EXTENSIONS

\* the paths line 68 appends while os.walk is in directory d
MatchingIn(d) ==
    LET keep(k) == HasValidExtension(d, k)
        idx == SelectSeq([k \in 1..Len(directory[d]) |-> k], keep)
    IN  [j \in 1..Len(idx) |-> JoinPath(d, idx[j])]

----------------------------------------------------------------------------
(* The probe *)

\* mediainfo_duration: a value, or the exception it lets through.
\* CalledProcessError is caught and printed; anything else propagates.
mediainfo_duration(filename) ==
    LET f == FileAt(filename) IN
    CASE f.media = "ok" -> [exc |-> "none", duration |-> f.ms, printed |-> FALSE]
      [] f.media = "CalledProcessError" ->
            [exc |-> "none", duration |-> 0, printed |-> TRUE]
      [] OTHER -> [exc |-> f.media, duration |-> 0, printed |-> FALSE]

\* video_info: the tuple it returns, or the exception it raises
video_info(filename) ==
    LET m == mediainfo_duration(filename)
        duration == IF m.exc = "none" THEN m.duration ELSE 0
        f == FileAt(filename)
    IN  IF f.stat # "ok"
        THEN [exc |-> f.stat, duration |-> 0, size |-> 0, title |-> 0,
              printed |-> m.printed]
        ELSE [exc |-> "none", duration |-> duration, size |-> f.bytes,
              title |-> filename.base, printed |-> m.printed]

InfoTuple(r) == [duration |-> r.duration, size |-> r.size, title |-> r.title]

----------------------------------------------------------------------------
Init ==
    /\ directory \in Trees
    /\ max_threads \in ThreadCounts
    /\ top_n_words \in TopNs
    /\ verbose \in BOOLEAN
    /\ pc = "walk"
    /\ walk_pos = 1
    /\ video_files = <<>>
    /\ dir_count = 0
    /\ futures = <<>>
    /\ probe_calls = <<>>
    /\ overtaken = FALSE
    /\ collect_pos = 1
    /\ video_info_list = <<>>
    /\ no_stream_count = 0
    /\ durations = <<>>
    /\ sizes = <<>>
    /\ titles = <<>>
    /\ bounds = <<>>
    /\ i = 1
    /\ stdout = <<>>
    /\ word_steps = <<>>
    /\ exception = "none"

\* lines 65-69, one directory
WalkDir ==
    /\ pc = "walk"
    /\ walk_pos <= Len(directory)
    /\ video_files' = video_files \o MatchingIn(walk_pos)
    /\ dir_count' = dir_count + 1
    /\ walk_pos' = walk_pos + 1
    /\ UNCHANGED << directory, max_threads, top_n_words, verbose, pc,
                    futures, probe_calls, overtaken, collect_pos,
                    video_info_list, no_stream_count, durations, sizes,
                    titles, bounds, i, stdout, word_steps, exception >>

\* os.walk is exhausted
WalkEnd ==
    /\ pc = "walk"
    /\ walk_pos > Len(directory)
    /\ pc' = "executor"
    /\ UNCHANGED << directory, max_threads, top_n_words, verbose, walk_pos,
                    video_files, dir_count, futures, probe_calls, overtaken,
                    collect_pos, video_info_list, no_stream_count, durations,
                    sizes, titles, bounds, i, stdout, word_steps, exception >>

----------------------------------------------------------------------------
(* The dispatch: lines 71-72 *)

NoResult == [exc |-> "none", duration |-> 0, size |-> 0, title |-> 0, printed |-> FALSE]

ExecutorRejectsNegative(max_workers) == max_workers < 0

\* ThreadPoolExecutor.__init__ raises ValueError on max_workers <= 0
ExecutorRejects(max_workers) == max_workers <= 0

AwaitedFutureReversed(pos, futs) == Len(futs) + 1 - pos

\* executor.map yields the results in the order of submission: the pos-th
\* result awaited is that of the pos-th future
AwaitedFuture(pos, futs) == pos

MapExhaustedEarly(pos, futs) == pos > Len(futs) \/ pos > 1

\* list(...) stops when the iterator has yielded every future's result
MapExhausted(pos, futs) == pos > Len(futs)

Running == { t \in 1..Len(futures) : futures[t].state = "running" }

Pending == { t \in 1..Len(futures) : futures[t].state = "pending" }

\* line 71, max_workers rejected: the with statement is never entered
CreateExecutorFails ==
    /\ pc = "executor"
    /\ ExecutorRejects(max_threads)
    /\ exception' = "ValueError"
    /\ pc' = "crashed"
    /\ UNCHANGED << directory, max_threads, top_n_words, verbose, walk_pos,
                    video_files, dir_count, futures, probe_calls, overtaken,
                    collect_pos, video_info_list, no_stream_count, durations,
                    sizes, titles, bounds, i, stdout, word_steps >>

\* line 71
CreateExecutor ==
    /\ pc = "executor"
    /\ ~ExecutorRejects(max_threads)
    /\ pc' = "map"
    /\ UNCHANGED << directory, max_threads, top_n_words, verbose, walk_pos,
                    video_files, dir_count, futures, probe_calls, overtaken,
                    collect_pos, video_info_list, no_stream_count, durations,
                    sizes, titles, bounds, i, stdout, word_steps, exception >>

\* line 72, executor.map: one call submitted per path, all before any
\* result is awaited
Map ==
    /\ pc = "map"
    /\ futures' = [t \in 1..Len(video_files) |-> [state |-> "pending", result |-> NoResult]]
    /\ collect_pos' = 1
    /\ pc' = "collect"
    /\ UNCHANGED << directory, max_threads, top_n_words, verbose, walk_pos,
                    video_files, dir_count, probe_calls, overtaken,
                    video_info_list, no_stream_count, durations, sizes,
                    titles, bounds, i, stdout, word_steps, exception >>

\* a worker thread takes the oldest queued call and enters video_info
WorkerStart(t) ==
    /\ pc \in {"collect", "shutdown"}
    /\ t \in Pending
    /\ \A u \in 1..(t - 1) : u \notin Pending
    /\ Cardinality(Running) < max_threads
    /\ futures' = [futures EXCEPT ![t].state = "running"]
    /\ probe_calls' = Append(probe_calls, video_files[t])
    /\ UNCHANGED << directory, max_threads, top_n_words, verbose, pc,
                    walk_pos, video_files, dir_count, overtaken, collect_pos,
                    video_info_list, no_stream_count, durations, sizes,
                    titles, bounds, i, stdout, word_steps, exception >>

\* video_info returns or raises; the future holds the outcome
WorkerFinish(t) ==
    /\ t \in Running
    /\ LET r == video_info(video_files[t]) IN
         /\ futures' = [futures EXCEPT ![t] = [state |-> "finished", result |-> r]]
         /\ overtaken' = (overtaken \/ \E u \in Running : u < t)
         /\ stdout' = IF r.printed
                      THEN Append(stdout, [line |-> "mediainfo error", file |-> video_files[t]])
                      ELSE stdout
    /\ UNCHANGED << directory, max_threads, top_n_words, verbose, pc,
                    walk_pos, video_files, dir_count, probe_calls,
                    collect_pos, video_info_list, no_stream_count, durations,
                    sizes, titles, bounds, i, word_steps, exception >>

\* list(...) takes the next result, or the exception of the call: the
\* iterator then cancels the calls still queued
Collect ==
    /\ pc = "collect"
    /\ ~MapExhausted(collect_pos, futures)
    /\ LET t == AwaitedFuture(collect_pos, futures) IN
         /\ futures[t].state = "finished"
         /\ IF futures[t].result.exc = "none"
            THEN /\ video_info_list' = Append(video_info_list, InfoTuple(futures[t].result))
                 /\ collect_pos' = collect_pos + 1
                 /\ UNCHANGED << futures, exception, pc >>
            ELSE /\ exception' = futures[t].result.exc
                 /\ futures' = [u \in 1..Len(futures) |->
                                  IF futures[u].state = "pending"
                                  THEN [futures[u] EXCEPT !.state = "cancelled"]
                                  ELSE futures[u]]
                 /\ pc' = "shutdown"
                 /\ UNCHANGED << video_info_list, collect_pos >>
    /\ UNCHANGED << directory, max_threads, top_n_words, verbose, walk_pos,
                    video_files, dir_count, probe_calls, overtaken,
                    no_stream_count, durations, sizes, titles, bounds, i,
                    stdout, word_steps >>

\* list(...) returns
CollectEnd ==
    /\ pc = "collect"
    /\ MapExhausted(collect_pos, futures)
    /\ pc' = "shutdown"
    /\ UNCHANGED << directory, max_threads, top_n_words, verbose, walk_pos,
                    video_files, dir_count, futures, probe_calls, overtaken,
                    collect_pos, video_info_list, no_stream_count, durations,
                    sizes, titles, bounds, i, stdout, word_steps, exception >>

\* the with statement exits: shutdown(wait=True) returns when no call is
\* queued or running; a pending exception then leaves analyze_videos
Shutdown ==
    /\ pc = "shutdown"
    /\ Running = {}
    /\ Pending = {}
    /\ pc' = IF exception = "none" THEN "filter" ELSE "crashed"
    /\ UNCHANGED << directory, max_threads, top_n_words, verbose, walk_pos,
                    video_files, dir_count, futures, probe_calls, overtaken,
                    collect_pos, video_info_list, no_stream_count, durations,
                    sizes, titles, bounds, i, stdout, word_steps, exception >>

----------------------------------------------------------------------------
(* The aggregation and the report: lines 74-128 *)

KeepRecordEitherZero(info) == ~(info.duration = 0 \/ info.size = 0)

\* line 75
KeepRecord(info) == ~(info.duration = 0 /\ info.size = 0)

\* line 86: np.linspace(lo, hi, n + 1), every point times n
Linspace(lo, hi, n) == [j \in 1..(n + 1) |-> n * lo + (j - 1) * (hi - lo)]

\* line 91: bounds[i] <= dur < bounds[i + 1]
InCategory(dur, b, c) == b[c] <= NumCategories * dur /\ NumCategories * dur < b[c + 1]

\* line 91
CategoryIndices(durs, b, c) ==
    SelectSeq([k \in 1..Len(durs) |-> k], LAMBDA k : InCategory(durs[k], b, c))

WordsEnabledAtZero(top_n) == top_n >= 0

\* line 105
WordsEnabled(top_n) == top_n > 0

\* lines 113-115: the vocabulary of single titles and adjacent pairs (a
\* title stands for one token)
Vocabulary(ts) ==
    { <<ts[k]>> : k \in 1..Len(ts) } \cup { <<ts[k], ts[k + 1]>> : k \in 1..(Len(ts) - 1) }

\* lines 74-80
Filter ==
    /\ pc = "filter"
    /\ LET kept == SelectSeq(video_info_list, KeepRecord) IN
         /\ video_info_list' = kept
         /\ no_stream_count' = Len(video_files) - Len(kept)
         /\ durations' = [k \in 1..Len(kept) |-> kept[k].duration]
         /\ sizes' = [k \in 1..Len(kept) |-> kept[k].size]
         /\ titles' = [k \in 1..Len(kept) |-> kept[k].title]
    /\ pc' = "header"
    /\ UNCHANGED << directory, max_threads, top_n_words, verbose, walk_pos,
                    video_files, dir_count, futures, probe_calls, overtaken,
                    collect_pos, bounds, i, stdout, word_steps, exception >>

\* lines 82-83
PrintHeader ==
    /\ pc = "header"
    /\ stdout' = stdout \o
         << [line |-> "scanned", dirs |-> dir_count, videos |-> Len(video_files)],
            [line |-> "avg size", mean |-> NpMean(sizes), total |-> SumSeq(sizes)] >>
    /\ pc' = "linspace"
    /\ UNCHANGED << directory, max_threads, top_n_words, verbose, walk_pos,
                    video_files, dir_count, futures, probe_calls, overtaken,
                    collect_pos, video_info_list, no_stream_count, durations,
                    sizes, titles, bounds, i, word_steps, exception >>

\* lines 85-89: min() of an empty list raises ValueError
ComputeBounds ==
    /\ pc = "linspace"
    /\ IF durations = <<>>
       THEN /\ exception' = "ValueError"
            /\ pc' = "crashed"
            /\ UNCHANGED << bounds, stdout, i >>
       ELSE /\ bounds' = Linspace(MinSeq(durations), MaxSeq(durations), NumCategories)
            /\ stdout' = Append(stdout, [line |-> "table header"])
            /\ i' = 1
            /\ pc' = "row"
            /\ UNCHANGED exception
    /\ UNCHANGED << directory, max_threads, top_n_words, verbose, walk_pos,
                    video_files, dir_count, futures, probe_calls, overtaken,
                    collect_pos, video_info_list, no_stream_count, durations,
                    sizes, titles, word_steps >>

\* lines 90-99, one iteration: int(avg_duration) raises ValueError on NaN
Row ==
    /\ pc = "row"
    /\ LET idx == CategoryIndices(durations, bounds, i)
           avg_duration == NpMean([k \in 1..Len(idx) |-> durations[idx[k]]])
           avg_size == NpMean([k \in 1..Len(idx) |-> sizes[idx[k]]])
           num_videos == Len(idx)
       IN  IF avg_duration.nan
           THEN /\ exception' = "ValueError"
                /\ pc' = "crashed"
                /\ UNCHANGED << stdout, i >>
           ELSE /\ stdout' = Append(stdout,
                        [line |-> "row", category |-> i, lo |-> bounds[i],
                         hi |-> bounds[i + 1], avg_duration |-> avg_duration,
                         num_videos |-> num_videos, avg_size |-> avg_size])
                /\ i' = i + 1
                /\ pc' = IF i = NumCategories THEN "elapsed" ELSE "row"
                /\ UNCHANGED exception
    /\ UNCHANGED << directory, max_threads, top_n_words, verbose, walk_pos,
                    video_files, dir_count, futures, probe_calls, overtaken,
                    collect_pos, video_info_list, no_stream_count, durations,
                    sizes, titles, bounds, word_steps >>

\* lines 101-103
PrintElapsed ==
    /\ pc = "elapsed"
    /\ stdout' = stdout \o << [line |-> "elapsed"], [line |-> "speed", videos |-> Len(video_files)] >>
    /\ pc' = "words"
    /\ UNCHANGED << directory, max_threads, top_n_words, verbose, walk_pos,
                    video_files, dir_count, futures, probe_calls, overtaken,
                    collect_pos, video_info_list, no_stream_count, durations,
                    sizes, titles, bounds, i, word_steps, exception >>

\* lines 105-125 with top_n_words > 0.  WordCloud.generate and
\* CountVectorizer.fit raise ValueError when the titles hold no word; the
\* model does not keep the letters of a title, so either outcome may occur.
WordReport ==
    /\ pc = "words"
    /\ WordsEnabled(top_n_words)
    /\ \E has_words \in BOOLEAN :
         IF has_words
         THEN /\ word_steps' = << "WordCloud.generate", "plt.show", "CountVectorizer" >>
              /\ stdout' = Append(stdout,
                     [line |-> "words",
                      entries |-> IF Cardinality(Vocabulary(titles)) < top_n_words
                                  THEN Cardinality(Vocabulary(titles))
                                  ELSE top_n_words])
              /\ pc' = "verbose"
              /\ UNCHANGED exception
         ELSE /\ word_steps' = << "WordCloud.generate" >>
              /\ exception' = "ValueError"
              /\ pc' = "crashed"
              /\ UNCHANGED stdout
    /\ UNCHANGED << directory, max_threads, top_n_words, verbose, walk_pos,
                    video_files, dir_count, futures, probe_calls, overtaken,
                    collect_pos, video_info_list, no_stream_count, durations,
                    sizes, titles, bounds, i >>

\* line 105 with top_n_words <= 0
SkipWordReport ==
    /\ pc = "words"
    /\ ~WordsEnabled(top_n_words)
    /\ pc' = "verbose"
    /\ UNCHANGED << directory, max_threads, top_n_words, verbose, walk_pos,
                    video_files, dir_count, futures, probe_calls, overtaken,
                    collect_pos, video_info_list, no_stream_count, durations,
                    sizes, titles, bounds, i, stdout, word_steps, exception >>

\* lines 127-128
PrintVerbose ==
    /\ pc = "verbose"
    /\ stdout' = IF verbose
                 THEN Append(stdout, [line |-> "no stream", count |-> no_stream_count])
                 ELSE stdout
    /\ pc' = "done"
    /\ UNCHANGED << directory, max_threads, top_n_words, verbose, walk_pos,
                    video_files, dir_count, futures, probe_calls, overtaken,
                    collect_pos, video_info_list, no_stream_count, durations,
                    sizes, titles, bounds, i, word_steps, exception >>

----------------------------------------------------------------------------
(* State predicates used by the properties *)

\* the main thread is past line 80 (a crash after line 80 is a crash after
\* the "scanned" line, which nothing before line 82 prints)
Scanned == \E k \in 1..Len(stdout) : stdout[k].line = "scanned"

Filtered ==
    \/ pc \in {"header", "linspace", "row", "elapsed", "words", "verbose", "done"}
    \/ pc = "crashed" /\ Scanned

\* the tuples the calls returned, by position in video_files
RawList == [t \in 1..Len(futures) |-> InfoTuple(futures[t].result)]

BothZero(r) == r.duration = 0 /\ r.size = 0

\* every matching path of the tree, in os.walk order
RECURSIVE AllMatching(_)
AllMatching(d) == IF d = 0 THEN <<>> ELSE AllMatching(d - 1) \o MatchingIn(d)

\* what the run printed, the workers' messages left out
Report == SelectSeq(stdout, LAMBDA l : l.line # "mediainfo error")

Rows == SelectSeq(stdout, LAMBDA l : l.line = "row")

LineKinds(s) == [k \in 1..Len(s) |-> s[k].line]

RowKinds == [c \in 1..NumCategories |-> "row"]

\* the categories whose interval holds the duration
CategoriesOf(dur) == { c \in 1..NumCategories : InCategory(dur, bounds, c) }

----------------------------------------------------------------------------
(* C1: every usable record lies in exactly one of the 5 buckets, the       *)
(* record of maximal duration included, and the 5 counts of a finished     *)
(* table add up to the number of usable records.                           *)
C1_Original ==
    /\ pc \in {"row", "elapsed", "words", "verbose", "done"} =>
          \A k \in 1..Len(durations) : Cardinality(CategoriesOf(durations[k])) = 1
    /\ Len(Rows) = NumCategories =>
          SumSeq([c \in 1..NumCategories |-> Rows[c].num_videos]) = Len(durations)

(* C2: a failing size lookup drops only that file; the run does not abort  *)
(* because of it.                                                          *)
C2_Original == ~(pc = "crashed" /\ exception = "OSError")

(* C3: with zero usable records no aggregate statistic is printed: no      *)
(* "avg size" line with a NaN mean ever reaches the output.                *)
C3_Original ==
    \A k \in 1..Len(stdout) : stdout[k].line = "avg size" => ~stdout[k].mean.nan

(* C4: once the bounds are computed the report loop prints all 5 rows; it  *)
(* never ends the run inside the loop, whether or not a bucket is empty.   *)
C4_Original == ~(pc = "crashed" /\ bounds # <<>> /\ i <= NumCategories)

(* C5: a call of video_info on a file whose media inspection fails ends    *)
(* with a tuple (duration 0, the file's size, the file's title), never     *)
(* with an exception.                                                      *)
C5_Original ==
    \A t \in 1..Len(futures) :
        (futures[t].state = "finished" /\ FileAt(video_files[t]).media # "ok") =>
            /\ futures[t].result.exc = "none"
            /\ futures[t].result.duration = 0
            /\ futures[t].result.size = FileAt(video_files[t]).bytes
            /\ futures[t].result.title = video_files[t].base

(* C6: after line 80 the retained list is the returned tuples minus those  *)
(* with duration 0 and size 0, in order; durations and sizes are read off  *)
(* the retained list; no_stream_count is the number of excluded tuples,    *)
(* which is the number of discovered files minus the retained ones, and    *)
(* the verbose line prints that number.                                    *)
C6_FilterExactlyBothZero ==
    Filtered =>
        /\ video_info_list = SelectSeq(RawList, LAMBDA r : r.duration # 0 \/ r.size # 0)
        /\ durations = [k \in 1..Len(video_info_list) |-> video_info_list[k].duration]
        /\ sizes = [k \in 1..Len(video_info_list) |-> video_info_list[k].size]
        /\ no_stream_count = Cardinality({ t \in 1..Len(RawList) : BothZero(RawList[t]) })
        /\ no_stream_count = Len(video_files) - Len(video_info_list)
        /\ \A k \in 1..Len(stdout) :
              stdout[k].line = "no stream" => stdout[k].count = no_stream_count

C6_Witness ==
    /\ pc = "done"
    /\ verbose
    /\ no_stream_count > 0
    /\ \E k \in 1..Len(video_info_list) :
          video_info_list[k].duration = 0 /\ video_info_list[k].size > 0
    /\ \E k \in 1..Len(stdout) : stdout[k].line = "no stream"

(* C7: with max_workers <= 0 no call is ever submitted or started: the run *)
(* goes from the walk to a ValueError raised by the executor's constructor.*)
C7_NoProbeWithoutWorkers ==
    max_threads <= 0 =>
        /\ probe_calls = <<>>
        /\ futures = <<>>
        /\ pc \in {"walk", "executor", "crashed"}
        /\ pc = "crashed" => exception = "ValueError"

C7_Witness ==
    max_threads <= 0 /\ pc = "crashed" /\ Len(video_files) >= 2

(* C8: with top_n = 0 no word-report call is made and no frequency line is *)
(* printed, and a finished run has printed the two header lines, the table *)
(* header, the 5 rows, the two elapsed-time lines and, under verbose, the  *)
(* no-stream count: the lines any top_n gives, the frequency line left out.*)
C8_TopNZeroDisablesWords ==
    top_n_words = 0 =>
        /\ word_steps = <<>>
        /\ \A k \in 1..Len(stdout) : stdout[k].line # "words"
        /\ pc = "done" =>
              LineKinds(Report) =
                  << "scanned", "avg size", "table header" >> \o RowKinds
                      \o << "elapsed", "speed" >>
                      \o (IF verbose THEN << "no stream" >> ELSE <<>>)

C8_Witness == top_n_words = 0 /\ pc = "done" /\ verbose /\ Len(Rows) = NumCategories

(* C9: no path is probed twice, and when list(...) has returned every path *)
(* was probed once and the result list is video_info of the paths, in the  *)
(* order of the paths, whatever the order in which the calls ended.        *)
C9_ResultsInInputOrder ==
    /\ \A a, b \in 1..Len(probe_calls) : probe_calls[a] = probe_calls[b] => a = b
    /\ pc = "filter" =>
          /\ max_threads >= 1
          /\ probe_calls = video_files
          /\ Len(video_info_list) = Len(video_files)
          /\ \A t \in 1..Len(video_files) :
                video_info_list[t] = InfoTuple(video_info(video_files[t]))

C9_Witness ==
    /\ pc = "filter"
    /\ Len(video_files) >= 2
    /\ overtaken
    /\ video_info_list[1] # video_info_list[2]

(* C10: a call is submitted or started only when the walk is over and      *)
(* video_files holds every matching path; the filter, the statistics and   *)
(* the report run only when every submitted call has ended, and the filter *)
(* starts from one result per path; a run that ends leaves no call behind. *)
C10_PhasesInOrder ==
    /\ (futures # <<>> \/ probe_calls # <<>>) =>
          /\ walk_pos > Len(directory)
          /\ video_files = AllMatching(Len(directory))
          /\ Len(futures) = Len(video_files)
    /\ (pc = "filter" \/ Filtered) =>
          \A t \in 1..Len(futures) : futures[t].state = "finished"
    /\ pc = "filter" => Len(video_info_list) = Len(video_files)
    /\ pc \in {"crashed", "done"} => Running = {}

C10_Witness ==
    /\ pc = "header"
    /\ Len(directory) >= 2
    /\ Len(futures) >= 2
    /\ overtaken

Next ==
    \/ WalkDir
    \/ WalkEnd
    \/ CreateExecutorFails
    \/ CreateExecutor
    \/ Map
    \/ \E t \in 1..Len(futures) : WorkerStart(t)
    \/ \E t \in 1..Len(futures) : WorkerFinish(t)
    \/ Collect
    \/ CollectEnd
    \/ Shutdown
    \/ Filter
    \/ PrintHeader
    \/ ComputeBounds
    \/ Row
    \/ PrintElapsed
    \/ WordReport
    \/ SkipWordReport
    \/ PrintVerbose

Spec == Init /\ [][Next]_vars

====
